---- MODULE Spec2Model ----
(***************************************************************************)
(* The ready-queue bridge of src/src/cq.rs: ReadyQueue::push_and_notify,   *)
(* ReadyQueue::pop_and_poll, poll and QueueNotify::notify, run by one      *)
(* owning worker thread and two other threads.                             *)
(*                                                                         *)
(* Every shared-memory operation of the code (queue.push, fetch_add, the   *)
(* alarm store, fetch_sub, try_pop, a cell lock, the alarm take) is one    *)
(* step, so that the interleavings of the threads are those of the code.   *)
(*                                                                         *)
(* SpinLock, Alarm and util::get_worker_id live outside cq.rs; they are    *)
(* modelled by their contract: a non-reentrant exclusive lock, a trigger   *)
(* whose alarm() posts one event to the owner's next(), and one worker id  *)
(* per thread.                                                             *)
(***************************************************************************)
EXTENDS Integers, Sequences, FiniteSets, TLC

\* --------------------------------------------------------------- scenario

\* One owning worker, two other threads and two tasks: the smallest
\* population in which two submissions race, a wake callback fires on a
\* third thread, and one task is suspended while another is polled.
Owner == "w"
Others == {"t1", "t2"}
Threads == {Owner} \cup Others
Tasks == {1, 2}

\* ---------------------------------------------------------------- bounds

\* Polls that return NotReady, over all tasks.
MaxSuspend == 1
\* Width of the pending counter. AtomicUsize is a machine word; the model
\* keeps the wrap-around arithmetic and scales the width down.
WordBits == 2
\* Depth of nested poll() calls on the owner thread.
MaxDepth == 2

Modulus == 2 ^ WordBits
UsizeMax == Modulus - 1

\* Enough notifies for every reference the threads can hold at once.
Notifies == 1 .. (Cardinality(Tasks) + 4)

NoTask == 0
NoNotify == 0
NoAlarm == "none"
NoThread == "none"

VARIABLES
    queue,       \* ReadyQueue.queue: the FIFO of tasks
    olog,        \* per other thread: the tasks it pushed that are still in
                 \* the FIFO, in the order of its push calls
    pending,     \* ReadyQueue.pending
    alarm,       \* ReadyQueue.alarm: NoAlarm for None, or the stored trigger:
                 \* "posted" (its event is yet to come out of next()) or
                 \* "delivered" (next() has returned its event)
    orphans,     \* events yet to come out of next() whose trigger is no
                 \* longer stored
    cell,        \* QueueNotify.f of every notify: a task or NoTask
    lockHolder,  \* the thread holding the SpinLock of QueueNotify.f
    wpc,         \* the owner's place in its loop of next() and pop_and_poll
    dnotify,     \* pop_and_poll's local `notify`
    done,        \* pop_and_poll's local `done`
    dleft,       \* tasks that were in the FIFO when the drain's loop started
                 \* and that the drain has yet to pop
    wstack,      \* the owner's active poll() calls, innermost last
    wwait,       \* the notify whose lock the owner is acquiring in notify()
    opc,         \* the other threads' places in push_and_notify / notify
    ohold,       \* the notify an other thread is locking or has locked
    oold,        \* the value an other thread's fetch_add returned
    ofirst,      \* whether an other thread's push found the queue at rest
                 \* and is the last push since
    tstate,      \* per task: "new" (not submitted), "live", "resolved"
    suspends,    \* per task: polls that returned NotReady
    failed,      \* per task: "no", or the kind of poll call ("inline",
                 \* "drain") in which its poll returned Err
    during,      \* per task in the FIFO: whether it was pushed while
                 \* pop_and_poll was in progress
    credit,      \* per task: suspensions less the times a notify took it
    armDebt      \* 0 -> 1 transitions of pending less the triggers armed

vars == << queue, olog, pending, alarm, orphans, cell, lockHolder, wpc,
           dnotify, done, dleft, wstack, wwait, opc, ohold, oold, ofirst,
           tstate, suspends, failed, during, credit, armDebt >>

ownerVars == << wpc, dnotify, done, dleft, wstack, wwait >>
otherVars == << opc, ohold, oold, ofirst >>
queueVars == << queue, olog, pending, alarm, orphans, armDebt >>
taskVars == << tstate, suspends, failed, during >>

\* ---------------------------------------------------------------- helpers

InFifo(t) == \E i \in DOMAIN queue : queue[i] = t

\* Mutant of QueuePush: the task is put at the head of the queue.
QueuePushFront(q, f) == << f >> \o q

\* self.queue.push(f): SegQueue is first in, first out.
QueuePush(q, f) == Append(q, f)

\* AtomicUsize::fetch_add(1) and fetch_sub(1) wrap around.
FetchAdd(p) == (p + 1) % Modulus
FetchSub(p) == (p + Modulus - 1) % Modulus

\* Mutant of ShouldArm: every submitter that sees at most one pending task arms.
ShouldArmLoose(old) == old <= 1

\* `if 0 == pending` on the value fetch_add returned.
ShouldArm(old) == old = 0

\* `while 0 != self.pending.fetch_sub(1, ..)` on the value fetch_sub returned.
DrainContinues(old) == old # 0

\* SpinLock::lock returns once no thread holds the lock.
LockFree(n) == lockHolder[n] = NoThread

\* A notify bound to a task, or whose cell a thread has locked.
Referenced(n) ==
    \/ cell[n] # NoTask
    \/ lockHolder[n] # NoThread

InUse(n) ==
    \/ Referenced(n)
    \/ (wpc # "next" /\ dnotify = n)
    \/ wwait = n
    \/ \E t \in Others : ohold[t] = n

HasFresh == \E n \in Notifies : ~InUse(n)

\* QueueNotify::new: a notify no thread refers to, its cell empty.
Fresh == CHOOSE n \in Notifies : ~InUse(n) /\ \A m \in Notifies : m < n => InUse(m)

\* The tasks are alike: they are submitted in the order of their numbers.
IsNextNew(t) ==
    /\ tstate[t] = "new"
    /\ \A u \in Tasks : u < t => tstate[u] # "new"

Top == wstack[Len(wstack)]

\* pop_and_poll is in progress on the owner.
InDrain == wpc \in {"fetch_sub", "try_pop", "in_poll", "take_alarm"}

\* The owner is blocked in next(), outside every call.
OwnerInNext == wpc = "next" /\ wstack = << >> /\ wwait = NoNotify

\* The queue as th finds it when it is the only one at work on it: the FIFO
\* empty, no drain in progress or on its way, no trigger stored, no other
\* submission under way.
AtRest(th) ==
    /\ queue = << >>
    /\ OwnerInNext
    /\ alarm = NoAlarm /\ orphans = 0
    /\ \A o \in Others \ {th} : opc[o] = "idle"

Frame(t, n, h, k) == [task |-> t, notify |-> n, held |-> h, kind |-> k]

Release(holder, n) == IF n = NoNotify THEN holder ELSE [holder EXCEPT ![n] = NoThread]

\* ---------------------------------------------------------------- Init

Init ==
    /\ queue = << >>
    /\ olog = [th \in Others |-> << >>]
    /\ pending = 0
    /\ alarm = NoAlarm
    /\ orphans = 0
    /\ cell = [n \in Notifies |-> NoTask]
    /\ lockHolder = [n \in Notifies |-> NoThread]
    /\ wpc = "next"
    /\ dnotify = NoNotify
    /\ done = TRUE
    /\ dleft = 0
    /\ wstack = << >>
    /\ wwait = NoNotify
    /\ opc = [t \in Others |-> "idle"]
    /\ ohold = [t \in Others |-> NoNotify]
    /\ oold = [t \in Others |-> 0]
    /\ ofirst = [t \in Others |-> FALSE]
    /\ tstate = [t \in Tasks |-> "new"]
    /\ suspends = [t \in Tasks |-> 0]
    /\ failed = [t \in Tasks |-> "no"]
    /\ during = [t \in Tasks |-> FALSE]
    /\ credit = [t \in Tasks |-> 0]
    /\ armDebt = 0

\* ------------------------------------------------- other (non-owner) threads

\* push_and_notify(f) called with a new task on a thread that is not the
\* owner: the else branch, whose first operation is self.queue.push(f).
OSubmit(th, t) ==
    /\ opc[th] = "idle"
    /\ IsNextNew(t)
    /\ tstate' = [tstate EXCEPT ![t] = "live"]
    /\ queue' = QueuePush(queue, t)
    /\ olog' = [olog EXCEPT ![th] = Append(@, t)]
    /\ during' = [during EXCEPT ![t] = InDrain]
    /\ ofirst' = [o \in Others |-> o = th /\ AtRest(th)]
    /\ opc' = [opc EXCEPT ![th] = "fetch_add"]
    /\ UNCHANGED << pending, alarm, orphans, armDebt, cell,
                    lockHolder, ownerVars, ohold, oold, suspends, failed,
                    credit >>

\* let pending = self.pending.fetch_add(1); if 0 == pending { .. }
\* Without the arming the call returns, and a calling notify() drops its guard.
OFetchAdd(th) ==
    /\ opc[th] = "fetch_add"
    /\ pending' = FetchAdd(pending)
    /\ armDebt' = armDebt + (IF pending = 0 /\ pending' = 1 THEN 1 ELSE 0)
    /\ ofirst' = [ofirst EXCEPT ![th] = FALSE]
    /\ IF ShouldArm(pending)
       THEN /\ opc' = [opc EXCEPT ![th] = "arm"]
            /\ oold' = [oold EXCEPT ![th] = pending]
            /\ UNCHANGED << ohold, lockHolder >>
       ELSE /\ opc' = [opc EXCEPT ![th] = "idle"]
            /\ ohold' = [ohold EXCEPT ![th] = NoNotify]
            /\ lockHolder' = Release(lockHolder, ohold[th])
            /\ UNCHANGED oold
    /\ UNCHANGED << queue, olog, alarm, orphans, cell, ownerVars, taskVars, credit >>

\* *alarm = Some(Alarm::new(&cq, tag)); alarm.alarm(): under the alarm lock.
\* The trigger's event is posted to the owner's next(); the event of a stored
\* trigger that this one replaces stays posted.
OArm(th) ==
    /\ opc[th] = "arm"
    /\ alarm' = "posted"
    /\ orphans' = orphans + (IF alarm = "posted" THEN 1 ELSE 0)
    /\ armDebt' = armDebt - 1
    /\ opc' = [opc EXCEPT ![th] = "idle"]
    /\ oold' = [oold EXCEPT ![th] = 0]
    /\ ohold' = [ohold EXCEPT ![th] = NoNotify]
    /\ lockHolder' = Release(lockHolder, ohold[th])
    /\ UNCHANGED << queue, olog, pending, cell, ownerVars, ofirst, taskVars, credit >>

\* Mutant of TakeCell: the task is read and left in the cell.
TakeCellKeep(n) == cell

\* self.f.lock().take()
TakeCell(n) == [cell EXCEPT ![n] = NoTask]

\* Mutant of ONotifyTake: the worker id is not compared, and the task taken
\* is polled with a new notify on the calling thread.
ONotifyTakeInline(th, n) ==
    /\ cell[n] # NoTask
    /\ HasFresh
    /\ cell' = [TakeCell(n) EXCEPT ![Fresh] = cell[n]]
    /\ lockHolder' = [lockHolder EXCEPT ![n] = th, ![Fresh] = th]
    /\ opc' = [opc EXCEPT ![th] = "fetch_add"]
    /\ ohold' = [ohold EXCEPT ![th] = n]
    /\ credit' = [credit EXCEPT ![cell[n]] = @ - 1]
    /\ UNCHANGED << queueVars, ownerVars, oold, ofirst, taskVars >>

\* if let Some(f) = self.f.lock().take() { self.cq.push_and_notify(f); }
\* with the lock of n acquired by th. With a task taken, push_and_notify
\* takes its else branch and pushes the task; the guard lives to the end of
\* the if let, so the lock is held until push_and_notify returns. The take
\* and the push are one step: between them only the held lock shows.
ONotifyTake(th, n) ==
    /\ cell' = TakeCell(n)
    /\ IF cell[n] = NoTask
       THEN /\ opc' = [opc EXCEPT ![th] = "idle"]
            /\ ohold' = [ohold EXCEPT ![th] = NoNotify]
            /\ UNCHANGED << queue, olog, lockHolder, credit, ofirst, during >>
       ELSE /\ opc' = [opc EXCEPT ![th] = "fetch_add"]
            /\ ohold' = [ohold EXCEPT ![th] = n]
            /\ queue' = QueuePush(queue, cell[n])
            /\ olog' = [olog EXCEPT ![th] = Append(@, cell[n])]
            /\ during' = [during EXCEPT ![cell[n]] = InDrain]
            /\ ofirst' = [o \in Others |-> o = th /\ AtRest(th)]
            /\ lockHolder' = [lockHolder EXCEPT ![n] = th]
            /\ credit' = [credit EXCEPT ![cell[n]] = @ - 1]
    /\ UNCHANGED << pending, alarm, orphans, armDebt, ownerVars, oold, tstate,
                    suspends, failed >>

\* QueueNotify::notify called on another thread: the lock is taken at once,
\* or the thread spins. (A call that finds the cell unlocked and empty
\* returns with nothing changed.)
OCallNotify(th, n) ==
    /\ opc[th] = "idle"
    /\ IF LockFree(n)
       THEN ONotifyTake(th, n)
       ELSE /\ opc' = [opc EXCEPT ![th] = "lock"]
            /\ ohold' = [ohold EXCEPT ![th] = n]
            /\ UNCHANGED << queueVars, cell, lockHolder, ownerVars, oold,
                            ofirst, taskVars, credit >>

\* The spinning thread gets the lock.
ONotifyLock(th) ==
    /\ opc[th] = "lock"
    /\ LockFree(ohold[th])
    /\ ONotifyTake(th, ohold[th])

\* ------------------------------------------------------------ owning worker

\* `*option = Some(f)` in poll.
PollInstall(n, f) == [cell EXCEPT ![n] = f]

\* Mutant of PollClear: the resolved task is left in the cell.
PollClearKeep(n) == cell

\* `option.take()` in poll, on Err or Ready.
PollClear(n) == [cell EXCEPT ![n] = NoTask]

\* Mutant of WSubmit: the worker id is not compared, the owner's submission
\* takes the cross-thread branch.
WSubmitQueued(t) ==
    /\ wpc = "next" /\ wstack = << >> /\ wwait = NoNotify
    /\ IsNextNew(t)
    /\ tstate' = [tstate EXCEPT ![t] = "live"]
    /\ queue' = QueuePush(queue, t)
    /\ pending' = FetchAdd(pending)
    /\ UNCHANGED << armDebt, olog >>
    /\ IF ShouldArm(pending)
       THEN /\ alarm' = "posted"
            /\ orphans' = orphans + (IF alarm = "posted" THEN 1 ELSE 0)
       ELSE UNCHANGED << alarm, orphans >>
    /\ UNCHANGED << cell, lockHolder, ownerVars, otherVars, suspends,
                    failed, during, credit >>

\* push_and_notify(f) called on the owner thread (get_worker_id() ==
\* self.worker_id): a new notify, and poll(f, &notify) up to the task's own
\* poll_future_notify, which runs until WPollEnd.
WSubmit(t) ==
    /\ wpc = "next" /\ wstack = << >> /\ wwait = NoNotify
    /\ IsNextNew(t)
    /\ HasFresh
    /\ tstate' = [tstate EXCEPT ![t] = "live"]
    /\ cell' = PollInstall(Fresh, t)
    /\ lockHolder' = [lockHolder EXCEPT ![Fresh] = Owner]
    /\ wstack' = Append(wstack, Frame(t, Fresh, NoNotify, "inline"))
    /\ UNCHANGED << queueVars, wpc, dnotify, done, dleft, wwait, otherVars,
                    suspends, failed, during, credit >>

\* next() returns a trigger's event, that of the stored trigger or that of
\* one no longer stored; its tag is resolved: QueueNotify::resolve calls
\* pop_and_poll, which starts with a new notify and done = true.
WNext(stored) ==
    /\ wpc = "next" /\ wstack = << >> /\ wwait = NoNotify
    /\ HasFresh
    /\ IF stored
       THEN alarm = "posted" /\ alarm' = "delivered" /\ UNCHANGED orphans
       ELSE orphans > 0 /\ orphans' = orphans - 1 /\ UNCHANGED alarm
    /\ dnotify' = Fresh
    /\ done' = TRUE
    /\ dleft' = Len(queue)
    /\ wpc' = "fetch_sub"
    /\ UNCHANGED << queue, olog, pending, armDebt, cell, lockHolder, wstack, wwait,
                    otherVars, taskVars, credit >>

\* while 0 != self.pending.fetch_sub(1, Ordering::SeqCst)
WFetchSub ==
    /\ wpc = "fetch_sub"
    /\ pending' = FetchSub(pending)
    /\ armDebt' = armDebt + (IF pending = 0 /\ pending' = 1 THEN 1 ELSE 0)
    /\ wpc' = IF DrainContinues(pending) THEN "try_pop" ELSE "take_alarm"
    /\ UNCHANGED << queue, olog, alarm, orphans, cell,
                    lockHolder, dnotify, done, dleft, wstack, wwait, otherVars,
                    taskVars, credit >>

\* Mutant of SelectNotify: the drain's notify is reused whatever `done` says.
SelectNotifyReuse == dnotify

\* notify = if done { notify } else { Arc::new(QueueNotify::new(..)) }
SelectNotify == IF done THEN dnotify ELSE Fresh

\* if let Some(f) = self.queue.try_pop() { done = poll(f, &notify); }
\* With a task popped, poll locks the notify's cell and installs the task.
WTryPop ==
    /\ wpc = "try_pop"
    /\ done \/ HasFresh
    /\ dnotify' = SelectNotify
    /\ IF queue = << >>
       THEN /\ wpc' = "fetch_sub"
            /\ UNCHANGED << queue, olog, cell, lockHolder, wstack, dleft, during >>
       ELSE /\ LockFree(SelectNotify)
            /\ queue' = Tail(queue)
            /\ olog' = [th \in Others |->
                          SelectSeq(olog[th], LAMBDA f : f # Head(queue))]
            /\ dleft' = IF dleft > 0 THEN dleft - 1 ELSE 0
            /\ during' = [during EXCEPT ![Head(queue)] = FALSE]
            /\ cell' = PollInstall(SelectNotify, Head(queue))
            /\ lockHolder' = [lockHolder EXCEPT ![SelectNotify] = Owner]
            /\ wstack' = Append(wstack,
                                Frame(Head(queue), SelectNotify, NoNotify, "drain"))
            /\ wpc' = "in_poll"
    /\ UNCHANGED << pending, alarm, orphans, armDebt,
                    done, wwait, otherVars, tstate, suspends, failed, credit >>

RECURSIVE Sum(_, _)
Sum(f, S) ==
    IF S = {} THEN 0
    ELSE LET x == CHOOSE y \in S : TRUE IN f[x] + Sum(f, S \ {x})

\* The results poll_future_notify may give; the tasks suspend at most
\* MaxSuspend times in all.
PollResults(t) ==
    {"Ready", "Err"} \cup
    (IF Sum(suspends, Tasks) < MaxSuspend THEN {"NotReady"} ELSE {})

\* Mutant of PollDone: Err is not matched with Ready.
PollDoneReadyOnly(res) == res = "Ready"

\* poll's match: Err(_) | Ok(Async::Ready(_)) => true, Ok(NotReady) => false
PollDone(res) == res # "NotReady"

\* What poll does with the result res of the innermost poll_future_notify:
\* on Err or Ready the cell is emptied; the guard of the cell is dropped, and
\* so is the guard of the notify() that made the call. A drain's poll writes
\* `done`. tstate, suspends and credit record what became of the task.
PollReturn(res) ==
    /\ cell' = IF PollDone(res) THEN PollClear(Top.notify) ELSE cell
    /\ lockHolder' = Release(Release(lockHolder, Top.notify), Top.held)
    /\ wstack' = SubSeq(wstack, 1, Len(wstack) - 1)
    /\ credit' = [credit EXCEPT ![Top.task] = IF res = "NotReady" THEN @ + 1 ELSE @]
    /\ suspends' = [suspends EXCEPT ![Top.task] = IF res = "NotReady" THEN @ + 1 ELSE @]
    /\ tstate' = [tstate EXCEPT ![Top.task] = IF res = "NotReady" THEN @ ELSE "resolved"]
    /\ IF Top.kind = "drain"
       THEN done' = PollDone(res) /\ wpc' = "fetch_sub"
       ELSE UNCHANGED << done, wpc >>
    /\ UNCHANGED << queueVars, dnotify, dleft, wwait, otherVars, during >>

\* The innermost poll returns, with one of the results the task may give;
\* failed records an Err.
WPollEnd(res) ==
    /\ wstack # << >> /\ wwait = NoNotify
    /\ res \in PollResults(Top.task)
    /\ PollReturn(res)
    /\ failed' = [failed EXCEPT ![Top.task] = IF res = "Err" THEN Top.kind ELSE @]

\* self.alarm.lock().take().expect("must have an Alarm"); pop_and_poll
\* returns and its locals are gone. The event of a trigger taken before
\* next() returned it stays posted.
WTakeAlarm ==
    /\ wpc = "take_alarm"
    /\ alarm' = NoAlarm
    /\ orphans' = orphans + (IF alarm = "posted" THEN 1 ELSE 0)
    /\ wpc' = IF alarm = NoAlarm THEN "panicked" ELSE "next"
    /\ dnotify' = NoNotify
    /\ done' = TRUE
    /\ dleft' = 0
    /\ UNCHANGED << queue, olog, pending, armDebt, cell, lockHolder, wstack, wwait,
                    otherVars, taskVars, credit >>

\* if let Some(f) = self.f.lock().take() { self.cq.push_and_notify(f); } on the
\* owner thread with the lock of n acquired: push_and_notify polls f at once
\* with a new notify, while the guard of the taken cell is still held.
WNotifyTake(n) ==
    /\ wwait' = NoNotify
    /\ IF cell[n] = NoTask
       THEN UNCHANGED << cell, lockHolder, wstack, credit >>
       ELSE /\ HasFresh
            /\ cell' = [TakeCell(n) EXCEPT ![Fresh] = cell[n]]
            /\ lockHolder' = [lockHolder EXCEPT ![n] = Owner, ![Fresh] = Owner]
            /\ wstack' = Append(wstack, Frame(cell[n], Fresh, n, "inline"))
            /\ credit' = [credit EXCEPT ![cell[n]] = @ - 1]
    /\ UNCHANGED << queueVars, wpc, dnotify, done, dleft, otherVars, taskVars >>

\* Mutant of WCallNotify: the cell is taken without waiting for its lock.
WCallNotifyNoLock(n) ==
    /\ wpc \in {"next", "in_poll"}
    /\ wwait = NoNotify
    /\ Len(wstack) < MaxDepth
    /\ WNotifyTake(n)

\* QueueNotify::notify called on the owner thread, between two events or from
\* inside a task's poll: the lock is taken at once, or the owner spins.
WCallNotify(n) ==
    /\ wpc \in {"next", "in_poll"}
    /\ wwait = NoNotify
    /\ Len(wstack) < MaxDepth
    /\ IF LockFree(n)
       THEN WNotifyTake(n)
       ELSE /\ wwait' = n
            /\ UNCHANGED << queueVars, cell, lockHolder, wpc, dnotify, done,
                            dleft, wstack, otherVars, taskVars, credit >>

\* The spinning owner gets the lock.
WNotifyLock ==
    /\ wwait # NoNotify
    /\ LockFree(wwait)
    /\ WNotifyTake(wwait)

Next ==
    \/ \E th \in Others, t \in Tasks : OSubmit(th, t)
    \/ \E th \in Others : OFetchAdd(th)
    \/ \E th \in Others : OArm(th)
    \/ \E th \in Others, n \in Notifies : OCallNotify(th, n)
    \/ \E th \in Others : ONotifyLock(th)
    \/ \E t \in Tasks : WSubmit(t)
    \/ \E stored \in BOOLEAN : WNext(stored)
    \/ WFetchSub
    \/ WTryPop
    \/ \E res \in {"Ready", "Err", "NotReady"} : WPollEnd(res)
    \/ WTakeAlarm
    \/ \E n \in Notifies : WCallNotify(n)
    \/ WNotifyLock

Spec == Init /\ [][Next]_vars

\* The cross-thread protocol alone: wake callbacks fire on other threads only.
\* The owner runs its loop and every call in progress runs to its end; nothing
\* obliges a thread to submit a task or to fire a wake callback.
FairNext ==
    \/ \E th \in Others, t \in Tasks : OSubmit(th, t)
    \/ \E th \in Others : OFetchAdd(th)
    \/ \E th \in Others : OArm(th)
    \/ \E th \in Others, n \in Notifies : OCallNotify(th, n)
    \/ \E th \in Others : ONotifyLock(th)
    \/ \E stored \in BOOLEAN : WNext(stored)
    \/ WFetchSub
    \/ WTryPop
    \/ \E res \in {"Ready", "Err", "NotReady"} : WPollEnd(res)
    \/ WTakeAlarm

FairSpec ==
    /\ Init /\ [][FairNext]_vars
    /\ WF_vars(\E stored \in BOOLEAN : WNext(stored))
    /\ WF_vars(WFetchSub)
    /\ WF_vars(WTryPop)
    /\ WF_vars(\E res \in {"Ready", "Err", "NotReady"} : WPollEnd(res))
    /\ WF_vars(WTakeAlarm)
    /\ \A th \in Others :
          WF_vars(OFetchAdd(th) \/ OArm(th) \/ ONotifyLock(th))

\* ------------------------------------------------------------------ claims

\* The owner no longer runs its loop: expect("must have an Alarm") panicked,
\* or the owner spins on a lock it holds itself.
OwnerStuck ==
    \/ wpc = "panicked"
    \/ (wwait # NoNotify /\ lockHolder[wwait] = Owner)

AllIdle == \A th \in Others : opc[th] = "idle"

Polling(t) == \E i \in DOMAIN wstack : wstack[i].task = t

\* C1: every task pushed onto the FIFO is eventually popped (and then polled)
\* by the owning worker, as long as the worker keeps running its loop.
C1_NoLostWakeup ==
    \A t \in Tasks : InFifo(t) ~> (~InFifo(t) \/ OwnerStuck)

\* C2: no task is inside two poll() calls at once, and a task inside poll()
\* is not in the FIFO, where a drain could pop it and poll it.
C2_NoDoubleDrive ==
    \A t \in Tasks :
        /\ Cardinality({i \in DOMAIN wstack : wstack[i].task = t}) <= 1
        /\ Polling(t) => ~InFifo(t)

\* C2's case: a task is being polled while another thread has fired the wake
\* callback of the notify it is polled with, and spins on the cell's lock.
C2_Witness ==
    /\ wstack # << >>
    /\ \E th \in Others : opc[th] = "lock" /\ ohold[th] = Top.notify

\* C3: a cross-thread push_and_notify that pushed onto a queue at rest (FIFO
\* empty, no drain in progress, no trigger stored), with no other push since,
\* takes pending from 0 to 1 with its fetch_add and goes on to arm a trigger.
C3_FirstPushArms ==
    [][\A th \in Others :
          (opc[th] = "fetch_add" /\ opc'[th] # "fetch_add" /\ ofirst[th])
          => (pending = 0 /\ pending' = 1 /\ opc'[th] = "arm")]_vars

\* C4: scenario B. When the drain returns that polled the one task ever
\* submitted, which resolved on its first poll, with no submission under way,
\* the FIFO is empty, the alarm slot is empty and pending is 0.
C4_DrainPostcondition ==
    [][\A t \in Tasks :
          ( /\ wpc = "take_alarm" /\ wpc' = "next"
            /\ tstate[t] = "resolved" /\ suspends[t] = 0
            /\ \A u \in Tasks \ {t} : tstate[u] = "new"
            /\ AllIdle /\ orphans = 0 )
          => (queue' = << >> /\ alarm' = NoAlarm /\ pending' = 0)]_vars

\* C5: every 0 -> 1 transition of pending has had its trigger armed, or its
\* submitter is about to arm it, and no trigger was armed without one; a
\* submitter arms only when its fetch_add returned 0.
C5_SingleArm ==
    /\ armDebt = Cardinality({th \in Others : opc[th] = "arm"})
    /\ \A th \in Others : opc[th] = "arm" => oold[th] = 0

\* C5's case: two submitters have pushed and returned, pending is 2, and one
\* trigger was armed: the submitter that saw a nonzero value armed none.
C5_Witness ==
    /\ pending = 2 /\ Len(queue) = 2
    /\ alarm = "posted" /\ orphans = 0
    /\ armDebt = 0
    /\ AllIdle

\* C6: no thread that called notify spins on a lock it holds itself (such a
\* call never returns).
C6_NotifyReturns ==
    ~(wwait # NoNotify /\ lockHolder[wwait] = Owner)

\* A step in which the owner thread enters push_and_notify with task t: a new
\* task it submits itself, or one its notify call took from a cell.
OwnerCallsPush(t) ==
    /\ opc' = opc /\ ohold' = ohold
    /\ \/ tstate[t] = "new" /\ tstate'[t] = "live"
       \/ credit'[t] = credit[t] - 1

\* A step in which a poll made by push_and_notify on the owner returns.
InlineReturn ==
    /\ wstack # << >>
    /\ Len(wstack') = Len(wstack) - 1
    /\ Top.kind = "inline"

\* C7: push_and_notify on the owner thread leaves the FIFO, the pending
\* counter and the alarm slot as they are, from the call (which puts the task
\* in poll at once) to the return (by which the task has been polled).
C7_InlineFastPath ==
    [][/\ \A t \in Tasks :
            OwnerCallsPush(t) =>
                /\ queue' = queue /\ pending' = pending /\ alarm' = alarm
                /\ orphans' = orphans
                /\ wstack' # << >> /\ wstack'[Len(wstack')].task = t
       /\ InlineReturn =>
                /\ queue' = queue /\ pending' = pending /\ alarm' = alarm
                /\ orphans' = orphans
                /\ \/ tstate'[Top.task] = "resolved"
                   \/ suspends'[Top.task] = suspends[Top.task] + 1]_vars

\* C7's case: a task has resolved although no cross-thread submission was
\* ever counted: the owner polled it inline, with no FIFO entry and no trigger.
C7_Witness ==
    /\ \E t \in Tasks : tstate[t] = "resolved" /\ suspends[t] = 0
    /\ pending = 0 /\ armDebt = 0
    /\ queue = << >> /\ alarm = NoAlarm /\ orphans = 0
    /\ OwnerInNext /\ AllIdle

\* C8: a task that suspended and was pushed onto the FIFO again by a wake
\* callback on another thread is eventually popped (and then polled) again
\* by the owning worker.
C8_ResuspensionRoundTrip ==
    \A t \in Tasks :
        (suspends[t] >= 1 /\ InFifo(t)) ~> (~InFifo(t) \/ OwnerStuck)

\* A step in which a notify call that had to wait for the lock finds the
\* cell empty.
EmptyNotifyStep ==
    \/ \E th \in Others : opc[th] = "lock" /\ opc'[th] = "idle"
    \/ wwait # NoNotify /\ wwait' = NoNotify /\ wstack' = wstack

\* C9: a task is taken from a cell by a wake callback at most once per
\* suspension, and a wake callback that finds the cell empty leaves the FIFO,
\* the pending counter, the alarm slot and the cells as they are.
C9_WakeOncePerSuspension ==
    /\ [](\A t \in Tasks : credit[t] >= 0)
    /\ [][EmptyNotifyStep =>
            /\ queue' = queue /\ pending' = pending /\ alarm' = alarm
            /\ orphans' = orphans /\ cell' = cell]_vars

\* C9's case: two wake callbacks were fired for one suspension; the first
\* has taken the task and is resubmitting it, the second is yet to find the
\* cell empty.
C9_Witness ==
    \E a \in Others, b \in Others :
        /\ opc[a] \in {"fetch_add", "arm"}
        /\ ohold[a] # NoNotify
        /\ opc[b] = "lock" /\ ohold[b] = ohold[a]
        /\ cell[ohold[a]] = NoTask

\* C10: poll installs a task only into an empty cell, and a drain iteration
\* that follows a NotReady poll goes on with another notify, whose cell is
\* empty, whether or not try_pop gives it a task.
C10_NotifyReuse ==
    [][/\ \A n \in Notifies :
            (cell'[n] # NoTask /\ cell'[n] # cell[n]) => cell[n] = NoTask
       /\ (wpc = "try_pop" /\ wpc' # "try_pop" /\ ~done) =>
            (dnotify' # dnotify /\ cell[dnotify'] = NoTask)]_vars

\* C10's case: the drain polls a task with a new notify while the task of
\* its previous iteration, which returned NotReady, is still in the cell of
\* the previous notify.
C10_Witness ==
    /\ wpc = "in_poll" /\ ~done
    /\ \E n \in Notifies : n # dnotify /\ cell[n] # NoTask /\ LockFree(n)

\* C11: expect("must have an Alarm") never fails: the owner never panics at
\* the end of pop_and_poll.
C11_DrainFindsTrigger == wpc # "panicked"

\* C12: when the drain's loop has ended and pop_and_poll is about to return,
\* the drain has popped every task that was in the FIFO when its loop
\* started.
C12_DrainCompleteness == wpc = "take_alarm" => dleft = 0

\* C13: a task pushed from another thread while pop_and_poll was in progress
\* is eventually popped (and then polled) by the owning worker, in that drain
\* or in a later one.
C13_SubmissionDuringDrain ==
    \A t \in Tasks :
        (InFifo(t) /\ during[t]) ~> (~InFifo(t) \/ OwnerStuck)

\* C14: a submitter stores the trigger it arms into an empty alarm slot: the
\* store never overwrites a trigger that is still stored.
C14_OneTriggerAtATime ==
    [][\A th \in Others :
          (opc[th] = "arm" /\ opc'[th] # "arm") => alarm = NoAlarm]_vars

\* A step that drops the stored trigger: the take at the end of a drain, or
\* a submitter's store over it.
DropsTrigger ==
    /\ alarm # NoAlarm
    /\ \/ wpc = "take_alarm" /\ wpc' # "take_alarm"
       \/ \E th \in Others : opc[th] = "arm" /\ opc'[th] # "arm"

\* C15: a stored trigger is dropped only after next() has returned its event
\* to the owner (which starts the drain the event causes).
C15_TriggerKeptUntilDelivered ==
    [][DropsTrigger => alarm = "delivered"]_vars

\* A step in which a thread other than the owner enters push_and_notify with
\* task t: a new task, or one its notify call took from a cell.
OtherCallsPush(th, t) ==
    /\ opc[th] # "fetch_add" /\ opc'[th] = "fetch_add"
    /\ \/ tstate[t] = "new" /\ tstate'[t] = "live"
       \/ credit'[t] = credit[t] - 1

\* C16: a task is inside poll (in a cell whose lock is held) only on the owner
\* thread, in one of the owner's poll calls; and push_and_notify on another
\* thread puts the task at the end of the FIFO and starts no poll.
C16_OnlyOwnerDrives ==
    /\ [](\A n \in Notifies :
            (cell[n] # NoTask /\ ~LockFree(n)) =>
                /\ lockHolder[n] = Owner
                /\ \E i \in DOMAIN wstack :
                      wstack[i].notify = n /\ wstack[i].task = cell[n])
    /\ [][\A th \in Others, t \in Tasks :
            OtherCallsPush(th, t) =>
                (wstack' = wstack /\ queue' = Append(queue, t))]_vars

\* C16's case: while the owner is inside a poll, a wake callback on another
\* thread has taken a task and is inside push_and_notify with it, holding the
\* lock of the cell it emptied.
C16_Witness ==
    /\ wstack # << >>
    /\ \E th \in Others :
          /\ opc[th] = "fetch_add"
          /\ ohold[th] # NoNotify
          /\ lockHolder[ohold[th]] = th

\* The places that hold task t: its entries in the FIFO and the cells it is in.
Places(t) ==
    Cardinality({i \in DOMAIN queue : queue[i] = t})
        + Cardinality({n \in Notifies : cell[n] = t})

C18_CounterBoundedByQueue == pending <= Len(queue)

\* A step in which the poll of task t returns Err.
PollFails(t) == failed[t] = "no" /\ failed'[t] # "no"

\* C19: a poll that returns Err leaves the state a poll that returns Ready
\* would leave (the cell of its notify empty and unlocked, done = true in a
\* drain, FIFO, counter and alarm slot as they were), and a drain iteration
\* that starts with done = true goes on with the notify it has.
C19_FailureLikeCompletion ==
    [][/\ \A t \in Tasks :
            PollFails(t) =>
                /\ Top.task = t
                /\ PollReturn("Ready")
                /\ cell'[Top.notify] = NoTask
                /\ Top.kind = "drain" => done'
       /\ (wpc = "try_pop" /\ wpc' # "try_pop" /\ done) =>
            dnotify' = dnotify]_vars

\* C19's case: in one drain the poll of a task returned Err and the drain is
\* now polling the next task with the same notify.
C19_Witness ==
    /\ wpc = "in_poll" /\ done
    /\ Top.kind = "drain" /\ Top.notify = dnotify
    /\ alarm = "delivered" /\ orphans = 0
    /\ \A u \in Tasks : suspends[u] = 0
    /\ \E t \in Tasks : t # Top.task /\ failed[t] = "drain"

\* C20: the drain pops a task only when no task that the same thread pushed
\* before it is still in the FIFO: of the tasks one thread pushed, the one
\* popped (and then polled) is the one pushed first.
C20_PerThreadOrder ==
    [][(wpc = "try_pop" /\ wpc' = "in_poll") =>
          \A th \in Others :
              (\E i \in DOMAIN olog[th] : olog[th][i] = wstack'[Len(wstack')].task)
                  => Head(olog[th]) = wstack'[Len(wstack')].task]_vars

\* C20's case: one thread has pushed two tasks, one call after the other,
\* both are in the FIFO, and the drain is about to pop.
C20_Witness ==
    /\ wpc = "try_pop"
    /\ \E th \in Others : Len(olog[th]) = 2 /\ queue = olog[th]

====
